---- MODULE Spec2Model ----
(***************************************************************************)
(* CV-Analyzer: the POST /analyze_cv route of src/app.py and the helpers   *)
(* it calls (the two text extractors, call_deepseek_api, json.loads and    *)
(* jsonify), as a state machine that handles one request at a time.        *)
(*                                                                         *)
(* Strings are modelled as the sequence of their pieces.  A piece is a     *)
(* single character wherever the code looks at characters (the filename,   *)
(* the first characters of an extracted text), and a longer chunk          *)
(* elsewhere; concatenation of strings is concatenation of sequences.      *)
(***************************************************************************)
EXTENDS Integers, Sequences, FiniteSets, TLC

VARIABLES
    pc,              \* position of the handler in the current request
    n_requests,      \* requests received so far
    requests_build,  \* which exception class response.json() raises
    request,         \* the request being handled
    file_extension,  \* line 80
    cv_text,         \* lines 87/89
    prompt,          \* lines 97-117
    upstream,        \* what the external API did for this request
    call,            \* outcome of call_deepseek_api (line 121)
    responses,       \* responses returned for the current request
    steps,           \* handler steps executed for the current request
    extract_calls,   \* extractor invocations for the current request
    api_calls        \* requests.post invocations for the current request

vars == <<pc, n_requests, requests_build, request, file_extension, cv_text,
          prompt, upstream, call, responses, steps, extract_calls, api_calls>>

\* Number of requests explored in one behaviour.
MaxRequests == 2

-----------------------------------------------------------------------------
\* String helpers

\* str.startswith
startswith(s, prefix) ==
    /\ Len(s) >= Len(prefix)
    /\ SubSeq(s, 1, Len(prefix)) = prefix

\* `sub in s` for strings
Contains(s, sub) ==
    \E i \in 0..(Len(s) - Len(sub)) : SubSeq(s, i + 1, i + Len(sub)) = sub

UpperChars == <<"A","B","C","D","E","F","G","H","I","J","K","L","M",
                "N","O","P","Q","R","S","T","U","V","W","X","Y","Z">>
LowerChars == <<"a","b","c","d","e","f","g","h","i","j","k","l","m",
                "n","o","p","q","r","s","t","u","v","w","x","y","z">>

\* str.lower, one character
LowerChar(c) ==
    IF \E i \in 1..26 : UpperChars[i] = c
    THEN LowerChars[CHOOSE i \in 1..26 : UpperChars[i] = c]
    ELSE c

\* str.lower
lower(s) == [i \in 1..Len(s) |-> LowerChar(s[i])]

\* s.split('.')[-1]: what follows the last dot, or all of s when s has no dot
RECURSIVE LastSegment(_)
LastSegment(s) ==
    IF s = <<>> THEN <<>>
    ELSE IF s[Len(s)] = "." THEN <<>>
    ELSE LastSegment(SubSeq(s, 1, Len(s) - 1)) \o <<s[Len(s)]>>

\* cv_file.filename.split('.')[-1].lower()
FileExtension(filename) == lower(LastSegment(filename))

EXT_PDF  == <<"p","d","f">>
EXT_DOC  == <<"d","o","c">>
EXT_DOCX == <<"d","o","c","x">>

-----------------------------------------------------------------------------
\* Text extraction

\* "".join(parts)
RECURSIVE Concat(_)
Concat(parts) ==
    IF parts = <<>> THEN <<>> ELSE Head(parts) \o Concat(Tail(parts))

\* '\n'.join(parts)
RECURSIVE JoinNewline(_)
JoinNewline(parts) ==
    IF parts = <<>> THEN <<>>
    ELSE IF Len(parts) = 1 THEN Head(parts)
    ELSE Head(parts) \o <<"\n">> \o JoinNewline(Tail(parts))

ERROR_SENTINEL == <<"E","r","r","o","r">>

\* What fitz.open raises on a stream that is no PDF; Document on no DOCX.
PdfOpenError  == <<"Failed to open stream">>
DocxOpenError == <<"File is not a zip file">>

\* A file parses as the format its bytes are, whatever its name says.
PdfReadable(file)  == file.format = "pdf"
DocxReadable(file) == file.format = "docx"

\* Variant: the failure message does not begin with the sentinel
extract_text_from_pdf_NoSentinel(file) ==
    IF PdfReadable(file)
    THEN Concat(file.parts)
    ELSE <<"P","D","F"," ","e","r","r","o","r",": ">> \o PdfOpenError

extract_text_from_pdf(file) ==
    IF PdfReadable(file)
    THEN Concat(file.parts)
    ELSE ERROR_SENTINEL \o <<" reading PDF: ">> \o PdfOpenError

extract_text_from_docx(file) ==
    IF DocxReadable(file)
    THEN JoinNewline(file.parts)
    ELSE ERROR_SENTINEL \o <<" reading DOCX: ">> \o DocxOpenError

\* The f-string of lines 97-117
ComposePromptText(text, job_description) ==
    <<"You are an expert HR CV analyst. ... CANDIDATE CV TEXT: ---">>
    \o text
    \o <<"--- JOB DESCRIPTION (JD): ---">>
    \o job_description
    \o <<"--- Generate a JSON response with the following four keys ONLY ...">>

-----------------------------------------------------------------------------
\* JSON text, json.loads and jsonify
\*
\* A JSON text is a sequence of tokens: braces, commas, "key": value members
\* and bare numbers.  A decoded value is an object (a set of <<key, value>>
\* pairs, one per key) or a number.

Tok(t, k, v) == [t |-> t, k |-> k, v |-> v]
LBRACE     == Tok("{", "", 0)
RBRACE     == Tok("}", "", 0)
COMMA      == Tok(",", "", 0)
Member(k, v) == Tok("member", k, v)
Number(v)  == Tok("number", "", v)

DecodeError == [ok |-> FALSE, kind |-> "none", obj |-> {}, num |-> 0]
DecodedObject(pairs) == [ok |-> TRUE, kind |-> "object", obj |-> pairs, num |-> 0]
DecodedNumber(v) == [ok |-> TRUE, kind |-> "number", obj |-> {}, num |-> v]

\* members of an object body: member (, member)*; a repeated key keeps its
\* last value, as Python's dict does
MembersWellFormed(inner) ==
    /\ Len(inner) % 2 = 1
    /\ \A i \in 1..Len(inner) :
          IF i % 2 = 1 THEN inner[i].t = "member" ELSE inner[i].t = ","

LastWins(inner) ==
    { <<inner[i].k, inner[i].v>> : i \in
        { j \in 1..Len(inner) :
            /\ inner[j].t = "member"
            /\ \A l \in (j + 1)..Len(inner) :
                  ~(inner[l].t = "member" /\ inner[l].k = inner[j].k) } }

\* json.loads(ai_response); ai_response is None (null) or a str (toks).
\* A failed decode stands for the raised TypeError / JSONDecodeError.
json_loads(ai_response) ==
    IF ai_response.null THEN DecodeError
    ELSE LET s == ai_response.toks IN
        IF Len(s) = 1 /\ s[1].t = "number" THEN DecodedNumber(s[1].v)
        ELSE IF Len(s) >= 2 /\ s[1] = LBRACE /\ s[Len(s)] = RBRACE
        THEN LET inner == SubSeq(s, 2, Len(s) - 1) IN
             IF inner = <<>> THEN DecodedObject({})
             ELSE IF MembersWellFormed(inner) THEN DecodedObject(LastWins(inner))
             ELSE DecodeError
        ELSE DecodeError

\* The four keys the prompt asks for (lines 110-114), and one it does not.
EXPECTED_KEYS == {"fit_score_percent", "summary", "issues_to_update",
                  "alternative_summary"}
KeyOrder == <<"alternative_summary", "fit_score_percent", "issues_to_update",
              "notes", "summary">>
AllKeys == { KeyOrder[i] : i \in 1..Len(KeyOrder) }

\* "k": v, "k": v, ...
RECURSIVE JoinMembers(_)
JoinMembers(members) ==
    IF members = <<>> THEN <<>>
    ELSE IF Len(members) = 1 THEN <<Head(members)>>
    ELSE <<Head(members), COMMA>> \o JoinMembers(Tail(members))

\* the members of obj from the i-th key of KeyOrder on, in key order
RECURSIVE SortedMembers(_, _)
SortedMembers(obj, i) ==
    IF i > Len(KeyOrder) THEN <<>>
    ELSE LET here == { p \in obj : p[1] = KeyOrder[i] } IN
         (IF here = {} THEN <<>>
          ELSE LET p == CHOOSE q \in here : TRUE IN <<Member(p[1], p[2])>>)
         \o SortedMembers(obj, i + 1)

\* Variant: only the four expected keys are passed on
jsonify_ExpectedOnly(value) ==
    IF value.kind = "number" THEN <<Number(value.num)>>
    ELSE <<LBRACE>>
         \o JoinMembers(SortedMembers({ q \in value.obj : q[1] \in EXPECTED_KEYS }, 1))
         \o <<RBRACE>>

\* jsonify(ai_result): the JSON text of the body, keys sorted
jsonify(value) ==
    IF value.kind = "number" THEN <<Number(value.num)>>
    ELSE <<LBRACE>> \o JoinMembers(SortedMembers(value.obj, 1)) \o <<RBRACE>>

\* jsonify({"error": message})
ErrorBody(message) == [kind |-> "error", error |-> message, json |-> <<>>]
JsonBody(text)     == [kind |-> "json", error |-> <<>>, json |-> text]
Response(status, body) == [status |-> status, body |-> body]

-----------------------------------------------------------------------------
\* The external analysis client, call_deepseek_api (lines 41-70)

\* The two messages the client raises, and an exception it lets through.
REQUEST_FAILED == <<"DeepSeek API request failed: ">>
PARSE_FAILED   == <<"Failed to parse DeepSeek API response: ">>

Returned(content) == [raised |-> "none", msg |-> <<>>, value |-> content]
Raised(kind, msg) ==
    [raised |-> kind, msg |-> msg, value |-> [null |-> TRUE, toks |-> <<>>]]

\* Variant: the status check left out
raise_for_status_Omitted(status) == FALSE

\* response.raise_for_status(): HTTPError for 4xx and 5xx, nothing else
raise_for_status(status) == 400 <= status /\ status < 600

\* str(e) of the RequestException raised by requests.post / raise_for_status
RequestExceptionText(up) ==
    IF up.transport = "connection" THEN <<"Connection refused">>
    ELSE IF up.transport = "timeout" THEN <<"Read timed out">>
    ELSE IF up.status < 500 THEN <<"4xx Client Error">>
    ELSE <<"5xx Server Error">>

\* result["choices"][0]["message"]["content"] on the decoded body:
\* which exception the subscripts raise, and its str(e)
SubscriptError(shape) ==
    CASE shape = "no_choices"    -> [class |-> "KeyError",   text |-> <<"'choices'">>]
      [] shape = "empty_choices" -> [class |-> "IndexError", text |-> <<"list index out of range">>]
      [] shape = "no_message"    -> [class |-> "KeyError",   text |-> <<"'message'">>]
      [] shape = "no_content"    -> [class |-> "KeyError",   text |-> <<"'content'">>]
      [] shape = "not_object"    -> [class |-> "TypeError",  text |-> <<"list indices must be integers or slices, not str">>]
      [] OTHER                   -> [class |-> "none",       text |-> <<>>]

JSON_DECODE_TEXT == <<"Expecting value: line 1 column 1 (char 0)">>

\* The except clauses of lines 67-70, for the exception response.json() raises
\* on an undecodable body.  Its class depends on the installed requests:
\*   "requests>=2.27"       requests.exceptions.JSONDecodeError, a subclass of
\*                          both RequestException and json.JSONDecodeError:
\*                          the first clause (line 67) takes it;
\*   "requests<2.27"        json.JSONDecodeError: the second clause takes it;
\*   "requests<2.27+simplejson"  simplejson's JSONDecodeError, a ValueError
\*                          that neither clause names: it propagates.
UndecodableBody(build) ==
    IF build = "requests>=2.27"
    THEN Raised("request_failed", REQUEST_FAILED \o JSON_DECODE_TEXT)
    ELSE IF build = "requests<2.27"
    THEN Raised("parse_failed", PARSE_FAILED \o JSON_DECODE_TEXT)
    ELSE Raised("ValueError", JSON_DECODE_TEXT)

call_deepseek_api(p, up, build) ==
    IF up.transport # "ok" \/ raise_for_status(up.status)
    THEN Raised("request_failed", REQUEST_FAILED \o RequestExceptionText(up))
    ELSE IF up.shape = "undecodable" THEN UndecodableBody(build)
    ELSE IF SubscriptError(up.shape).class \in {"KeyError", "IndexError"}
    THEN Raised("parse_failed", PARSE_FAILED \o SubscriptError(up.shape).text)
    ELSE IF SubscriptError(up.shape).class # "none"
    THEN Raised(SubscriptError(up.shape).class, SubscriptError(up.shape).text)
    ELSE Returned(up.content)

\* str(e) of what json.loads raises on s (line 124)
JsonLoadsErrorText(ai_response) ==
    IF ai_response.null
    THEN <<"the JSON object must be str, bytes or bytearray, not NoneType">>
    ELSE JSON_DECODE_TEXT

-----------------------------------------------------------------------------
\* Inputs

\* Uploaded filenames:
\*   resume.pdf  CV.PDF  cv.Doc  cv.docx  notes.txt  pdf  DOCX  (empty)
\*   cv.pdf.exe  a.tar.docx  cv.  .pdf
Filenames ==
    { <<"r","e","s","u","m","e",".","p","d","f">>,
      <<"C","V",".","P","D","F">>,
      <<"c","v",".","D","o","c">>,
      <<"c","v",".","d","o","c","x">>,
      <<"n","o","t","e","s",".","t","x","t">>,
      <<"p","d","f">>,
      <<"D","O","C","X">>,
      <<>>,
      <<"c","v",".","p","d","f",".","e","x","e">>,
      <<"a",".","t","a","r",".","d","o","c","x">>,
      <<"c","v",".">>,
      <<".","p","d","f">> }

\* Pages (PDF) or paragraphs (DOCX) of the uploaded documents
SeniorText   == <<"S","e","n","i","o","r"," Engineer, 5 years Python">>
ErrorLogText == <<"E","r","r","o","r"," log analyst">>
SkillsText   == <<"P","y","t","h","o","n">>
DocumentParts ==
    { <<>>,
      <<SeniorText>>,
      <<SeniorText, SkillsText>>,
      <<ErrorLogText, SkillsText>>,
      << <<"E","r","r">>, <<"o","r","s">> >> }

\* The uploaded bytes: a PDF or a DOCX with its parts, or neither
Files ==
    [format : {"pdf", "docx"}, parts : DocumentParts]
    \cup { [format |-> "garbage", parts |-> <<>>] }

JobDescriptions ==
    { <<"Need a backend engineer with Python and cloud experience">> }

Requests ==
    [has_file : BOOLEAN, has_jd : BOOLEAN, filename : Filenames,
     file : Files, job_description : JobDescriptions]

\* Values the model gives each key
ValueOf(k) ==
    CASE k = "fit_score_percent" -> 82
      [] k = "summary" -> 1
      [] k = "issues_to_update" -> 2
      [] k = "alternative_summary" -> 3
      [] OTHER -> 4

\* the keys of S in key order, from the i-th key on
RECURSIVE KeysInOrder(_, _)
KeysInOrder(S, i) ==
    IF i > Len(KeyOrder) THEN <<>>
    ELSE (IF KeyOrder[i] \in S THEN <<KeyOrder[i]>> ELSE <<>>)
         \o KeysInOrder(S, i + 1)

Reverse(s) == [i \in 1..Len(s) |-> s[Len(s) + 1 - i]]

\* the JSON text { "k1": v1, "k2": v2, ... }
ObjectText(members) == <<LBRACE>> \o JoinMembers(members) \o <<RBRACE>>
MembersOf(keys) == [i \in 1..Len(keys) |-> Member(keys[i], ValueOf(keys[i]))]

\* Model contents the upstream may send: every set of keys as an object, in
\* key order and reversed, a repeated key, a bare number, and damaged texts
\* (closing brace lost, opening brace lost, nothing).
WellFormedContents ==
    { ObjectText(MembersOf(KeysInOrder(S, 1))) : S \in SUBSET AllKeys }
    \cup { ObjectText(MembersOf(Reverse(KeysInOrder(S, 1)))) :
             S \in {AllKeys, EXPECTED_KEYS, {"summary", "fit_score_percent"}} }
    \cup { ObjectText(<<Member("summary", 1), Member("fit_score_percent", 82),
                        Member("summary", 5)>>),
           <<Number(82)>> }
DamagedContents ==
    { SubSeq(t, 1, Len(t) - 1) : t \in WellFormedContents }
    \cup { SubSeq(t, 2, Len(t)) : t \in WellFormedContents }
Contents == WellFormedContents \cup DamagedContents

NoContent == [null |-> TRUE, toks |-> <<>>]
Str(toks) == [null |-> FALSE, toks |-> toks]

\* Shapes of a decoded reply body that carries no content string
BrokenShapes == {"undecodable", "not_object", "no_choices", "empty_choices",
                 "no_message", "no_content"}

\* What the external API does with one call
Upstreams ==
    [transport : {"connection", "timeout"}, status : {0}, shape : {"none"},
     content : {NoContent}]
    \cup [transport : {"ok"}, status : {404, 503}, shape : {"undecodable"},
          content : {NoContent}]
    \cup [transport : {"ok"}, status : {200, 304}, shape : BrokenShapes,
          content : {NoContent}]
    \cup [transport : {"ok"}, status : {200, 304}, shape : {"ok"},
          content : {NoContent} \cup { Str(t) : t \in Contents }]

NoUpstream == [transport |-> "none", status |-> 0, shape |-> "none",
               content |-> NoContent]
NoCall == [raised |-> "not_called", msg |-> <<>>, value |-> NoContent]
NoRequest == [has_file |-> FALSE, has_jd |-> FALSE, filename |-> <<>>,
              file |-> [format |-> "garbage", parts |-> <<>>],
              job_description |-> <<>>]

Builds == {"requests>=2.27", "requests<2.27", "requests<2.27+simplejson"}

-----------------------------------------------------------------------------
\* The handler analyze_cv (lines 73-130), step by step

Init ==
    /\ pc = "idle"
    /\ n_requests = 0
    /\ requests_build \in Builds
    /\ request = NoRequest
    /\ file_extension = <<>>
    /\ cv_text = <<>>
    /\ prompt = <<>>
    /\ upstream = NoUpstream
    /\ call = NoCall
    /\ responses = <<>>
    /\ steps = <<>>
    /\ extract_calls = 0
    /\ api_calls = 0

\* A request arrives; nothing of the previous request is kept.
Receive ==
    /\ pc \in {"idle", "done"}
    /\ n_requests < MaxRequests
    /\ \E r \in Requests : request' = r
    /\ n_requests' = n_requests + 1
    /\ pc' = "validate"
    /\ file_extension' = <<>>
    /\ cv_text' = <<>>
    /\ prompt' = <<>>
    /\ upstream' = NoUpstream
    /\ call' = NoCall
    /\ responses' = <<>>
    /\ steps' = <<>>
    /\ extract_calls' = 0
    /\ api_calls' = 0
    /\ UNCHANGED requests_build

\* return jsonify(...), status
Return(status, body) ==
    /\ responses' = Append(responses, Response(status, body))
    /\ pc' = "done"

\* Variant: rejects only when both fields are absent
FieldsMissing_Both(r) == ~r.has_file /\ ~r.has_jd

\* line 75
FieldsMissing(r) == ~r.has_file \/ ~r.has_jd

\* lines 75-76
ValidateFields ==
    /\ pc = "validate"
    /\ steps' = Append(steps, "validate")
    /\ IF FieldsMissing(request)
       THEN Return(400, ErrorBody(<<"Missing CV file or job description">>))
       ELSE pc' = "extension" /\ UNCHANGED responses
    /\ UNCHANGED <<n_requests, requests_build, request, file_extension, cv_text,
                   prompt, upstream, call, extract_calls, api_calls>>

\* lines 78-83
DetermineExtension ==
    /\ pc = "extension"
    /\ steps' = Append(steps, "extension")
    /\ file_extension' = FileExtension(request.filename)
    /\ pc' = "extract"
    /\ UNCHANGED <<n_requests, requests_build, request, cv_text, prompt,
                   upstream, call, responses, extract_calls, api_calls>>

\* lines 86-91
ExtractText ==
    /\ pc = "extract"
    /\ steps' = Append(steps, "extract")
    /\ IF file_extension = EXT_PDF
       THEN /\ cv_text' = extract_text_from_pdf(request.file)
            /\ extract_calls' = extract_calls + 1
            /\ pc' = "sentinel"
            /\ UNCHANGED responses
       ELSE IF file_extension \in {EXT_DOC, EXT_DOCX}
       THEN /\ cv_text' = extract_text_from_docx(request.file)
            /\ extract_calls' = extract_calls + 1
            /\ pc' = "sentinel"
            /\ UNCHANGED responses
       ELSE /\ Return(415, ErrorBody(
                   <<"Unsupported file type. Please upload a PDF or DOCX.">>))
            /\ UNCHANGED <<cv_text, extract_calls>>
    /\ UNCHANGED <<n_requests, requests_build, request, file_extension, prompt,
                   upstream, call, api_calls>>

\* Variant: the 500 is produced but the handler does not return
CheckSentinel_FallThrough ==
    /\ pc = "sentinel"
    /\ steps' = Append(steps, "sentinel")
    /\ IF startswith(cv_text, ERROR_SENTINEL)
       THEN responses' = Append(responses,
                Response(500, ErrorBody(<<"Failed to parse CV: ">> \o cv_text)))
       ELSE UNCHANGED responses
    /\ pc' = "prompt"
    /\ UNCHANGED <<n_requests, requests_build, request, file_extension, cv_text,
                   prompt, upstream, call, extract_calls, api_calls>>

\* lines 93-94
CheckSentinel ==
    /\ pc = "sentinel"
    /\ steps' = Append(steps, "sentinel")
    /\ IF startswith(cv_text, ERROR_SENTINEL)
       THEN Return(500, ErrorBody(<<"Failed to parse CV: ">> \o cv_text))
       ELSE pc' = "prompt" /\ UNCHANGED responses
    /\ UNCHANGED <<n_requests, requests_build, request, file_extension, cv_text,
                   prompt, upstream, call, extract_calls, api_calls>>

\* lines 97-117
ComposePrompt ==
    /\ pc = "prompt"
    /\ steps' = Append(steps, "prompt")
    /\ prompt' = ComposePromptText(cv_text, request.job_description)
    /\ pc' = "api"
    /\ UNCHANGED <<n_requests, requests_build, request, file_extension, cv_text,
                   upstream, call, responses, extract_calls, api_calls>>

\* line 121: the one call of call_deepseek_api, with whatever the upstream does
CallApi ==
    /\ pc = "api"
    /\ steps' = Append(steps, "api")
    /\ \E up \in Upstreams :
          /\ upstream' = up
          /\ call' = call_deepseek_api(prompt, up, requests_build)
    /\ api_calls' = api_calls + 1
    /\ pc' = "finish"
    /\ UNCHANGED <<n_requests, requests_build, request, file_extension, cv_text,
                   prompt, responses, extract_calls>>

AI_FAILED == <<"AI analysis failed due to a server error. Details: ">>

\* lines 124-130: decode and return 200, or the except clause's 500
Finish ==
    /\ pc = "finish"
    /\ steps' = Append(steps, "finish")
    /\ IF call.raised # "none"
       THEN Return(500, ErrorBody(AI_FAILED \o call.msg))
       ELSE IF json_loads(call.value).ok
       THEN Return(200, JsonBody(jsonify(json_loads(call.value))))
       ELSE Return(500, ErrorBody(AI_FAILED \o JsonLoadsErrorText(call.value)))
    /\ UNCHANGED <<n_requests, requests_build, request, file_extension, cv_text,
                   prompt, upstream, call, extract_calls, api_calls>>

Next ==
    \/ Receive
    \/ ValidateFields
    \/ DetermineExtension
    \/ ExtractText
    \/ CheckSentinel
    \/ ComposePrompt
    \/ CallApi
    \/ Finish

Spec == Init /\ [][Next]_vars

-----------------------------------------------------------------------------
\* Properties

Answered == pc = "done" /\ Len(responses) >= 1
Status == responses[1].status
Body == responses[1].body
BothFieldsPresent == request.has_file /\ request.has_jd
SUPPORTED == {EXT_PDF, EXT_DOC, EXT_DOCX}

HasDot(s) == \E i \in 1..Len(s) : s[i] = "."
\* the extension a filename names: the lower-cased suffix after its last dot
NamedExtension(s) == IF HasDot(s) THEN lower(LastSegment(s)) ELSE <<>>

\* the parser chosen for the request could not read the uploaded bytes
ParserFailed ==
    \/ file_extension = EXT_PDF /\ request.file.format # "pdf"
    \/ file_extension \in {EXT_DOC, EXT_DOCX} /\ request.file.format # "docx"
ParserFailureText ==
    IF file_extension = EXT_PDF THEN PdfOpenError ELSE DocxOpenError

\* the call of the external API failed in transport: no connection, a
\* timeout, or an HTTP error status
TransportError(up) ==
    \/ up.transport \in {"connection", "timeout"}
    \/ up.transport = "ok" /\ up.status >= 400 /\ up.status <= 599

\* C1: a reply whose model content is not valid JSON, or is valid JSON
\* lacking one of the four expected keys, is answered with 500, never 200.
ContentMalformed(c) ==
    \/ ~json_loads(c).ok
    \/ json_loads(c).kind # "object"
    \/ \E k \in EXPECTED_KEYS : \A q \in json_loads(c).obj : q[1] # k
C1_MalformedContentIs500 ==
    (Answered /\ api_calls = 1 /\ call.raised = "none"
        /\ ContentMalformed(call.value))
    => Status = 500

\* C2: a request lacking cv_file or job_description is answered with 400 and
\* an error body, whatever else it holds, and neither an extractor nor the
\* external API is called for it.
C2_MissingFieldIs400 ==
    (n_requests > 0 /\ (~request.has_file \/ ~request.has_jd))
    => /\ extract_calls = 0
       /\ api_calls = 0
       /\ pc \in {"validate", "done"}
       /\ pc = "done" =>
            /\ Len(responses) = 1
            /\ Status = 400
            /\ Body.kind = "error"
            /\ Body.error # <<>>
C2_Witness ==
    /\ Answered
    /\ request.has_file /\ ~request.has_jd
    /\ request.filename = <<"n","o","t","e","s",".","t","x","t">>
    /\ request.file.format = "garbage"
    /\ Status = 400

\* C3: with both fields present, a filename whose extension (compared
\* case-insensitively) is not pdf, doc or docx is answered with 415, and
\* neither an extractor nor the external API is called.
C3_UnsupportedExtensionIs415 ==
    (Answered /\ BothFieldsPresent
        /\ NamedExtension(request.filename) \notin SUPPORTED)
    => (Status = 415 /\ extract_calls = 0 /\ api_calls = 0)

\* C4: when the external call fails in transport, the answer is 500 with an
\* error body whose message contains the description of the failure; never
\* a 2xx.
C4_TransportErrorIs500 ==
    (Answered /\ api_calls = 1 /\ TransportError(upstream))
    => /\ Len(responses) = 1
       /\ Status = 500
       /\ Body.kind = "error"
       /\ Contains(Body.error, RequestExceptionText(upstream))
C4_Witness ==
    /\ Answered
    /\ api_calls = 1
    /\ upstream.transport = "ok" /\ upstream.status = 503
    /\ Status = 500
    /\ Contains(Body.error, <<"5xx Server Error">>)

\* C5: a file with a supported extension that its parser cannot read is
\* answered with 500 and an error body naming the parser's failure, never a
\* 2xx, and the external API is not called.
C5_UnreadableFileIs500 ==
    (Answered /\ BothFieldsPresent /\ ParserFailed)
    => /\ Len(responses) = 1
       /\ Status = 500
       /\ Body.kind = "error"
       /\ Contains(Body.error, ParserFailureText)
       /\ extract_calls = 1
       /\ api_calls = 0
C5_Witness ==
    /\ Answered
    /\ file_extension = EXT_PDF
    /\ request.file.format = "docx"
    /\ Status = 500
    /\ Contains(Body.error, PdfOpenError)

\* C6: when validation, extraction and the external call succeed and the
\* content decodes as JSON, the answer is 200 and its body decodes to exactly
\* the value the content decodes to.
C6_SuccessEchoesDecodedValue ==
    (Answered /\ api_calls = 1 /\ call.raised = "none"
        /\ json_loads(call.value).ok)
    => /\ Status = 200
       /\ Body.kind = "json"
       /\ json_loads(Str(Body.json)) = json_loads(call.value)
C6_Witness ==
    /\ Answered
    /\ Status = 200
    /\ call.value = Str(ObjectText(MembersOf(Reverse(KeysInOrder(AllKeys, 1)))))
    /\ Body.json # call.value.toks
    /\ Cardinality(json_loads(Str(Body.json)).obj) = 5

\* C7: every transport failure or non-2xx status raises the "request failed"
\* error, and every 2xx reply lacking the expected structure (no choices, no
\* message or content, undecodable body) raises the "failed to parse
\* response" error.
C7_ClientErrorClasses ==
    (api_calls = 1 /\ pc \in {"finish", "done"})
    => /\ (upstream.transport \in {"connection", "timeout"}
            \/ (upstream.transport = "ok"
                 /\ (upstream.status < 200 \/ upstream.status > 299)))
          => call.raised = "request_failed"
       /\ (upstream.transport = "ok"
            /\ upstream.status >= 200 /\ upstream.status <= 299
            /\ upstream.shape \in {"undecodable", "no_choices", "empty_choices",
                                   "no_message", "no_content"})
          => call.raised = "parse_failed"

\* C8: a request makes at most one external call, and only after the field
\* check, the extension check and the extraction have passed; the steps run
\* once each and in order, a request has no response before it is finished
\* and exactly one after, and nothing runs after the response but the next
\* request.
HandlerOrder ==
    <<"validate", "extension", "extract", "sentinel", "prompt", "api", "finish">>
C8_Inv ==
    /\ api_calls <= 1
    /\ extract_calls <= 1
    /\ Len(steps) <= Len(HandlerOrder)
    /\ steps = SubSeq(HandlerOrder, 1, Len(steps))
    /\ Len(responses) = (IF pc = "done" THEN 1 ELSE 0)
    /\ api_calls = 1 =>
          /\ BothFieldsPresent
          /\ file_extension \in SUPPORTED
          /\ extract_calls = 1
          /\ ~startswith(cv_text, ERROR_SENTINEL)
          /\ Len(steps) >= 6
    /\ (pc = "done" /\ Status # 200) =>
          /\ Body.kind = "error"
          /\ api_calls = (IF Len(steps) = 7 THEN 1 ELSE 0)
C8_AtMostOneCallOneResponse ==
    /\ []C8_Inv
    /\ [][pc = "done" => (pc' = "validate" /\ n_requests' = n_requests + 1
                            /\ responses' = <<>> /\ api_calls' = 0)]_vars
C8_Witness ==
    /\ Answered
    /\ n_requests = 2
    /\ Status = 500
    /\ steps = <<"validate", "extension", "extract", "sentinel">>

\* C9: the 500 "Failed to parse CV" answer is given only when the extractor
\* failed; a file that parsed proceeds to the external call whatever its text.
C9_ParseFailureOnlyWhenParserFailed ==
    (Answered /\ Status = 500 /\ Body.kind = "error"
        /\ startswith(Body.error, <<"Failed to parse CV: ">>))
    => ParserFailed

\* C10: a filename without a dot has no supported extension and is answered
\* with 415 without extraction.
C10_NoDotIs415 ==
    (Answered /\ BothFieldsPresent /\ ~HasDot(request.filename))
    => (Status = 415 /\ extract_calls = 0)

====
